---------------------------- MODULE Spec2Model ----------------------------
(***************************************************************************)
(* Model of the social media analytics platform:                           *)
(*   - SocialMediaDataProcessor (src/src/data_processing.py): the derived  *)
(*     metric formulas and the table update pipeline;                      *)
(*   - ContentRecommendationEngine (src/src/ml_models/                     *)
(*     engagement_predictor.py): user profiles and recommendations.        *)
(*   - EngagementPredictor (same file): the model, its scaler and the      *)
(*     is_trained flag under train, predict, save_model and load_model.    *)
(*                                                                         *)
(* The metric formulas are evaluated in IEEE-754 binary64 arithmetic, as   *)
(* pandas evaluates them.  A finite non-negative double is held as the     *)
(* exact integer number of 2^-75 units it is worth, written as a           *)
(* little-endian sequence of 15-bit limbs (TLC integers are 32 bits wide,  *)
(* a double's significand is 53).                                          *)
(***************************************************************************)
EXTENDS Integers, Sequences, FiniteSets, TLC

(***************************************************************************)
(* Binary64 arithmetic on non-negative values                              *)
(***************************************************************************)

\* Bits of a double's significand.
SignificandBits == 53

\* A natural number of any size is a little-endian sequence of limbs of
\* LimbBits bits each, without most significant zero limbs; zero is <<>>.
LimbBits == 15

\* Unit of the fixed-point view: every finite double the model produces is
\* at least 2^-22 (or zero), hence a whole number of 2^-75 = FracLimbs limbs.
FracLimbs == 5

Max(a, b) == IF a >= b THEN a ELSE b

RECURSIVE Pow2(_)
Pow2(n) == IF n <= 0 THEN 1 ELSE 2 * Pow2(n - 1)

LimbBase == Pow2(LimbBits)

RECURSIVE Zeros(_)
Zeros(n) == IF n <= 0 THEN <<>> ELSE <<0>> \o Zeros(n - 1)

RECURSIVE NatLimbs(_)
NatLimbs(n) == IF n = 0 THEN <<>> ELSE <<n % LimbBase>> \o NatLimbs(n \div LimbBase)

\* Drop the most significant zero limbs.
RECURSIVE Trim(_)
Trim(b) ==
    IF b = <<>> THEN b
    ELSE IF b[Len(b)] # 0 THEN b
    ELSE Trim(SubSeq(b, 1, Len(b) - 1))

LimbAt(b, i) == IF i >= 1 /\ i <= Len(b) THEN b[i] ELSE 0

Rest(b) == IF b = <<>> THEN <<>> ELSE Tail(b)

RECURSIVE AddCarry(_, _, _)
AddCarry(a, b, c) ==
    IF a = <<>> /\ b = <<>>
    THEN NatLimbs(c)
    ELSE LET s == LimbAt(a, 1) + LimbAt(b, 1) + c
         IN  <<s % LimbBase>> \o AddCarry(Rest(a), Rest(b), s \div LimbBase)

BigAdd(a, b) == AddCarry(a, b, 0)

\* a - b for a >= b.
RECURSIVE SubBorrow(_, _, _)
SubBorrow(a, b, c) ==
    IF a = <<>> THEN <<>>
    ELSE LET d == LimbAt(a, 1) - LimbAt(b, 1) - c
         IN  <<(d + LimbBase) % LimbBase>>
                 \o SubBorrow(Rest(a), Rest(b), IF d < 0 THEN 1 ELSE 0)

BigSub(a, b) == Trim(SubBorrow(a, b, 0))

\* b * n for a natural number n < LimbBase.
RECURSIVE MulCarry(_, _, _)
MulCarry(b, n, c) ==
    IF b = <<>> THEN NatLimbs(c)
    ELSE LET p == b[1] * n + c
         IN  <<p % LimbBase>> \o MulCarry(Tail(b), n, p \div LimbBase)

BigMulNat(b, n) == Trim(MulCarry(b, n, 0))

\* a < b on trimmed limb sequences.
RECURSIVE LessFrom(_, _, _)
LessFrom(a, b, i) ==
    IF i = 0 THEN FALSE
    ELSE IF a[i] # b[i] THEN a[i] < b[i]
    ELSE LessFrom(a, b, i - 1)

BigLess(a, b) ==
    IF Len(a) # Len(b) THEN Len(a) < Len(b) ELSE LessFrom(a, b, Len(a))

BigLeq(a, b) == a = b \/ BigLess(a, b)

BigAbsDiff(a, b) == IF BigLess(a, b) THEN BigSub(b, a) ELSE BigSub(a, b)

\* Long division by a natural number 1 <= d <= LimbBase, most significant
\* limb first: [q |-> quotient, r |-> remainder].
RECURSIVE DivFrom(_, _, _, _)
DivFrom(b, d, i, r) ==
    IF i = 0 THEN [q |-> <<>>, r |-> r]
    ELSE LET cur  == r * LimbBase + b[i]
             rest == DivFrom(b, d, i - 1, cur % d)
         IN  [q |-> rest.q \o <<cur \div d>>, r |-> rest.r]

BigDivNat(b, d) ==
    LET res == DivFrom(b, d, Len(b), 0) IN [q |-> Trim(res.q), r |-> res.r]

RECURSIVE NatBitLength(_)
NatBitLength(n) == IF n = 0 THEN 0 ELSE 1 + NatBitLength(n \div 2)

BitLength(b) ==
    IF b = <<>> THEN 0 ELSE LimbBits * (Len(b) - 1) + NatBitLength(b[Len(b)])

\* b * 2^n.
BigShiftLeft(b, n) ==
    IF b = <<>> THEN <<>>
    ELSE Zeros(n \div LimbBits) \o BigMulNat(b, Pow2(n % LimbBits))

\* Round to nearest, ties to even, keeping SignificandBits significant bits.
\* sticky tells that the exact value lies strictly above b.
RoundNearestEven(b, sticky) ==
    IF BitLength(b) <= SignificandBits THEN b
    ELSE LET sh     == BitLength(b) - SignificandBits
             k      == (sh - 1) \div LimbBits
             \* b without its sh - 1 lowest bits: the kept bits and the guard bit
             withG  == BigDivNat(SubSeq(b, k + 1, Len(b)), Pow2((sh - 1) % LimbBits))
             low    == sticky \/ withG.r # 0 \/ (\E i \in 1..k : b[i] # 0)
             guard  == withG.q[1] % 2
             top    == BigDivNat(withG.q, 2).q
             up     == guard = 1 /\ (low \/ top[1] % 2 = 1)
             m      == IF up THEN BigAdd(top, <<1>>) ELSE top
         IN  BigShiftLeft(m, sh)

\* Doubles: finite non-negative values, +inf and nan.
Fin(b) == [cls |-> "fin", mag |-> b]
Inf == [cls |-> "inf", mag |-> <<>>]
NaN == [cls |-> "nan", mag |-> <<>>]

IsFinite(x) == x.cls = "fin"

\* int64 -> float64 (exact for the counts of the model).
FloatOfNat(n) == Fin(IF n = 0 THEN <<>> ELSE Zeros(FracLimbs) \o NatLimbs(n))

\* float64(n) / float64(d), correctly rounded; x/0 is inf, 0/0 is nan (numpy).
FloatDivNat(n, d) ==
    IF d = 0 THEN (IF n = 0 THEN NaN ELSE Inf)
    ELSE LET res == BigDivNat(FloatOfNat(n).mag, d)
         IN  Fin(RoundNearestEven(res.q, res.r # 0))

\* x * float64(n), correctly rounded.
FloatMulNat(x, n) ==
    IF x.cls = "nan" THEN NaN
    ELSE IF x.cls = "inf" THEN (IF n = 0 THEN NaN ELSE Inf)
    ELSE Fin(RoundNearestEven(BigMulNat(x.mag, n), FALSE))

\* x + y, correctly rounded.
FloatAdd(x, y) ==
    IF x.cls = "nan" \/ y.cls = "nan" THEN NaN
    ELSE IF x.cls = "inf" \/ y.cls = "inf" THEN Inf
    ELSE Fin(RoundNearestEven(BigAdd(x.mag, y.mag), FALSE))

\* The decimal literal p/10 as Python reads it: the double nearest to p/10.
DecimalTenths(p) == FloatDivNat(p, 10)


\* x / float64(n) for n >= 1, correctly rounded.
FloatDivByNat(x, n) ==
    IF x.cls # "fin" THEN x
    ELSE LET res == BigDivNat(x.mag, n)
         IN  Fin(RoundNearestEven(res.q, res.r # 0))

(***************************************************************************)
(* State                                                                   *)
(***************************************************************************)
VARIABLES
    content_posts,                \* table content_posts joined with the interaction tables
    content_performance_metrics,  \* table content_performance_metrics
    user_engagement_metrics,      \* table user_engagement_metrics
    hashtags,                     \* table hashtags
    content_hashtags,             \* table content_hashtags
    current_date,                 \* CURRENT_DATE of the database, in days
    calls,                        \* number of update calls of the processor so far
    returned,                     \* the last call of the processor and what it returned
    user_profiles,                \* ContentRecommendationEngine.user_profiles
    last_build,                   \* arguments of the most recent build_user_profiles call
    builds,                       \* number of build_user_profiles calls so far
    result,                       \* the last call of the engine or the predictor and what it returned
    model,                        \* EngagementPredictor.model
    scaler,                       \* EngagementPredictor.scaler
    is_trained,                   \* EngagementPredictor.is_trained
    model_files                   \* the files save_model wrote, by path

dbVars == <<content_posts, content_performance_metrics, user_engagement_metrics,
            hashtags, content_hashtags, current_date>>

procVars == <<dbVars, calls, returned>>

engineVars == <<user_profiles, last_build, builds, result>>

predictorVars == <<model, scaler, is_trained, model_files>>

vars == <<content_posts, content_performance_metrics, user_engagement_metrics,
          hashtags, content_hashtags, current_date, calls, returned,
          user_profiles, last_build, builds, result,
          model, scaler, is_trained, model_files>>

\* A sequence given elementwise, as a tuple.
AsSeq(f) == f \o <<>>

\* A table that was never created, and one holding rows.
Absent == [exists |-> FALSE, rows |-> <<>>]
Table(rows) == [exists |-> TRUE, rows |-> rows]

NoCall == [op |-> "none", value |-> FALSE]

(***************************************************************************)
(* SocialMediaDataProcessor.calculate_engagement_metrics                   *)
(***************************************************************************)

\* Series.replace(0, 1) on likes_count.
ReplaceNothing(x) == x

ReplaceZeroByOne(x) == IF x = 0 THEN 1 ELSE x

\* (likes + comments + shares) / likes.replace(0, 1) * 100
EngagementRateZeroWithoutLikes(row) ==
    IF row.likes_count = 0 THEN FloatOfNat(0)
    ELSE FloatMulNat(
           FloatDivNat(row.likes_count + row.comments_count + row.shares_count,
                       row.likes_count),
           100)

EngagementRate(row) ==
    FloatMulNat(
        FloatDivNat(row.likes_count + row.comments_count + row.shares_count,
                    ReplaceZeroByOne(row.likes_count)),
        100)

\* shares * 0.4 + comments * 0.3 + saves * 0.3, evaluated left to right
ViralityScoreEqualWeights(row) ==
    FloatAdd(
        FloatAdd(FloatMulNat(DecimalTenths(3), row.shares_count),
                 FloatMulNat(DecimalTenths(3), row.comments_count)),
        FloatMulNat(DecimalTenths(3), row.saves_count))

ViralityScore(row) ==
    FloatAdd(
        FloatAdd(FloatMulNat(DecimalTenths(4), row.shares_count),
                 FloatMulNat(DecimalTenths(3), row.comments_count)),
        FloatMulNat(DecimalTenths(3), row.saves_count))

\* One row of the returned frame: the selected columns and the derived ones.
\* (reach_count and impressions_count are random multiples of likes_count
\* that no other computation of the model reads; they are left out.)
MetricsRow(id, row) ==
    [content_id       |-> id,
     user_id          |-> row.user_id,
     created_day      |-> row.created_day,
     likes_count      |-> row.likes_count,
     comments_count   |-> row.comments_count,
     shares_count     |-> row.shares_count,
     saves_count      |-> row.saves_count,
     engagement_rate  |-> EngagementRate(row),
     virality_score   |-> ViralityScore(row)]

\* The frame calculate_engagement_metrics returns: one row per content post,
\* or the empty frame when the query raises (the except branch).
CalculateEngagementMetrics(posts, readOk) ==
    IF readOk
    THEN AsSeq([i \in 1..Len(posts) |-> MetricsRow(i, posts[i])])
    ELSE <<>>

CalculateEngagementMetricsCall ==
    \E readOk \in BOOLEAN :
        /\ returned' = [op    |-> "calculate_engagement_metrics",
                        value |-> CalculateEngagementMetrics(content_posts, readOk)]
        /\ UNCHANGED <<dbVars, calls>>
        /\ UNCHANGED <<engineVars, predictorVars>>

(***************************************************************************)
(* EngagementPredictor                                                     *)
(*                                                                         *)
(* A feature matrix is named by the number of its data set.  A scaler is   *)
(* the data set it was last fitted on (0: never fitted, or reset); an      *)
(* estimator is its type, whether fit has completed on it, and the data    *)
(* set whose scaling its training features went through.  label_encoders   *)
(* and feature_columns are read by no test of train, predict, save_model   *)
(* or load_model and are left out.                                         *)
(***************************************************************************)
MaxDatasets == 2
MaxFiles == 1

Datasets == 1..MaxDatasets
Filepaths == 1..MaxFiles

ModelTypes == {"random_forest", "gradient_boosting"}
UnknownModelType == "svm"

\* self.model = None, StandardScaler(), and their fitted forms
None == [type |-> "None", fitted |-> FALSE, scaled_on |-> 0]
StandardScaler == [fitted_on |-> 0]
FitTransform(X) == [fitted_on |-> X]
Estimator(model_type) == [type |-> model_type, fitted |-> FALSE, scaled_on |-> 0]
Fit(model_type, X) == [type |-> model_type, fitted |-> TRUE, scaled_on |-> X]

\* The fields of the predictor.
Self == [model |-> model, scaler |-> scaler, is_trained |-> is_trained]

\* What a call leaves behind: the predictor and the value it returns.
Left(self, value) == [self |-> self, value |-> value]

\* The empty dict and the empty array of the except branches.
EmptyDict == <<>>
EmptyArray == <<>>

\* train.  The statement that raises, if any: train_test_split ("split"),
\* scaler.fit_transform ("scale": StandardScaler.fit resets the scaler
\* before it validates the data), the test of model_type, model.fit
\* ("fit"), or one of predict, the metrics and cross_val_score
\* ("evaluate").  The except branch returns the empty dict and undoes
\* nothing.
Train(self, X, model_type, fault) ==
    IF fault = "split" THEN Left(self, EmptyDict)
    ELSE IF fault = "scale"
    THEN Left([self EXCEPT !.scaler = StandardScaler], EmptyDict)
    ELSE IF model_type \notin ModelTypes
    THEN Left([self EXCEPT !.scaler = FitTransform(X)], EmptyDict)
    ELSE IF fault = "fit"
    THEN Left([self EXCEPT !.scaler = FitTransform(X),
                           !.model = Estimator(model_type)], EmptyDict)
    ELSE IF fault = "evaluate"
    THEN Left([self EXCEPT !.scaler = FitTransform(X),
                           !.model = Fit(model_type, X)], EmptyDict)
    ELSE Left([self EXCEPT !.scaler = FitTransform(X),
                           !.model = Fit(model_type, X),
                           !.is_trained = TRUE],
              <<<<"model_type", model_type>>>>)

\* predict: the empty array when is_trained is False or a statement raises
\* (scaler.transform on a scaler that is not fitted, model.predict on None
\* or on an estimator that is not fitted, or any other: "predict"), else
\* the predictions of self.model on X scaled by self.scaler.
Predict(self, X, fault) ==
    IF ~self.is_trained THEN EmptyArray
    ELSE IF fault = "predict" THEN EmptyArray
    ELSE IF self.scaler = StandardScaler THEN EmptyArray
    ELSE IF ~self.model.fitted THEN EmptyArray
    ELSE <<[X |-> X, model |-> self.model, scaler |-> self.scaler]>>

\* A path without a file, and the file joblib.dump writes.
NoFile == [exists |-> FALSE, model_data |-> [model |-> None, scaler |-> StandardScaler,
                                             is_trained |-> FALSE]]
Dump(model_data) == [exists |-> TRUE, model_data |-> model_data]

\* save_model: False when is_trained is False or joblib.dump raises.
SaveModel(self, files, filepath, fault) ==
    IF ~self.is_trained THEN Left(files, FALSE)
    ELSE IF fault = "dump" THEN Left(files, FALSE)
    ELSE Left([files EXCEPT ![filepath] = Dump(self)], TRUE)

\* load_model: False when the file does not exist or joblib.load raises,
\* else the three fields are those of the file.
LoadModel(self, files, filepath, fault) ==
    IF ~files[filepath].exists THEN Left(self, FALSE)
    ELSE IF fault = "load" THEN Left(self, FALSE)
    ELSE Left(files[filepath].model_data, TRUE)

\* __init__
InitPredictor ==
    /\ model = None
    /\ scaler = StandardScaler
    /\ is_trained = FALSE
    /\ model_files = [f \in Filepaths |-> NoFile]

\* The predictor after a call.
Becomes(self) ==
    /\ model' = self.model
    /\ scaler' = self.scaler
    /\ is_trained' = self.is_trained

TrainFaults == {"none", "split", "scale", "fit", "evaluate"}

TrainCall ==
    \E X \in Datasets, model_type \in ModelTypes \cup {UnknownModelType},
       fault \in TrainFaults :
        /\ Becomes(Train(Self, X, model_type, fault).self)
        /\ result' = [op |-> "train", model_type |-> model_type, fault |-> fault,
                      value |-> Train(Self, X, model_type, fault).value]
        /\ UNCHANGED <<model_files, user_profiles, last_build, builds, procVars>>

PredictCall ==
    \E X \in Datasets, fault \in {"none", "predict"} :
        /\ result' = [op |-> "predict", fault |-> fault,
                      value |-> Predict(Self, X, fault)]
        /\ UNCHANGED <<predictorVars, user_profiles, last_build, builds, procVars>>

SaveModelCall ==
    \E filepath \in Filepaths, fault \in {"none", "dump"} :
        /\ model_files' = SaveModel(Self, model_files, filepath, fault).self
        /\ result' = [op |-> "save_model", fault |-> fault,
                      value |-> SaveModel(Self, model_files, filepath, fault).value]
        /\ UNCHANGED <<model, scaler, is_trained, user_profiles, last_build, builds,
                       procVars>>

LoadModelCall ==
    \E filepath \in Filepaths, fault \in {"none", "load"} :
        /\ Becomes(LoadModel(Self, model_files, filepath, fault).self)
        /\ result' = [op |-> "load_model", fault |-> fault,
                      value |-> LoadModel(Self, model_files, filepath, fault).value]
        /\ UNCHANGED <<model_files, user_profiles, last_build, builds, procVars>>

NextPredictor ==
    \/ TrainCall
    \/ PredictCall
    \/ SaveModelCall
    \/ LoadModelCall

(***************************************************************************)
(* ContentRecommendationEngine                                             *)
(***************************************************************************)

\* x >= y on doubles (a comparison with nan is false).
FloatGeq(x, y) ==
    IF x.cls = "nan" \/ y.cls = "nan" THEN FALSE
    ELSE IF x.cls = "inf" THEN TRUE
    ELSE IF y.cls = "inf" THEN FALSE
    ELSE BigLeq(y.mag, x.mag)

\* The double written with three decimals, m/1000.
DecimalThousandths(m) == FloatDivNat(m, 1000)

\* _classify_performance
ClassifyPerformanceStrict(engagement_rate) ==
    IF FloatGeq(engagement_rate, FloatOfNat(8))
           /\ engagement_rate # FloatOfNat(8) THEN "Excellent"
    ELSE IF FloatGeq(engagement_rate, FloatOfNat(5))
           /\ engagement_rate # FloatOfNat(5) THEN "Good"
    ELSE IF FloatGeq(engagement_rate, FloatOfNat(3))
           /\ engagement_rate # FloatOfNat(3) THEN "Average"
    ELSE "Needs Improvement"

ClassifyPerformance(engagement_rate) ==
    IF FloatGeq(engagement_rate, FloatOfNat(8)) THEN "Excellent"
    ELSE IF FloatGeq(engagement_rate, FloatOfNat(5)) THEN "Good"
    ELSE IF FloatGeq(engagement_rate, FloatOfNat(3)) THEN "Average"
    ELSE "Needs Improvement"

\* Sequences over S of length at most n.
SeqsUpTo(S, n) == UNION {[1..k -> S] : k \in 0..n}

\* The positions of a column at which a value occurs for the first time.
FirstSeenAt(col) == {i \in 1..Len(col) : \A j \in 1..(i - 1) : col[j] # col[i]}

\* The distinct values of a column, in order of first occurrence (the order
\* in which pandas' hash table meets them).
FirstSeen(col) ==
    LET at == FirstSeenAt(col)
    IN  AsSeq([n \in 1..Cardinality(at) |->
                  col[CHOOSE i \in at : Cardinality({j \in at : j <= i}) = n]])

Occurrences(col, v) == Cardinality({i \in 1..Len(col) : col[i] = v})

\* Bijections of 1..n.
Orders(n) == {f \in [1..n -> 1..n] : \A i, j \in 1..n : f[i] = f[j] => i = j}

\* Series.value_counts().to_dict(): the distinct values with their counts,
\* in descending order of count.  pandas sorts the counts with sort_values
\* (kind "quicksort"), which is not stable: the order among equal counts
\* is any order, here the one the ranking tie gives to the first-seen
\* positions.  The dict keeps that order.
ValueCounts(col, tie) ==
    LET keys == FirstSeen(col)
        n    == Len(keys)
        cnt  == AsSeq([j \in 1..n |-> Occurrences(col, keys[j])])
        before(a, b) == cnt[a] > cnt[b] \/ (cnt[a] = cnt[b] /\ tie[a] < tie[b])
        rank(j) == Cardinality({a \in 1..n : before(a, j)}) + 1
    IN  AsSeq([r \in 1..n |->
                  LET j == CHOOSE a \in 1..n : rank(a) = r IN <<keys[j], cnt[j]>>])

Column(rows, name) == AsSeq([i \in 1..Len(rows) |-> rows[i][name]])

RECURSIVE FloatSum(_)
FloatSum(xs) ==
    IF xs = <<>> THEN FloatOfNat(0)
    ELSE FloatAdd(FloatSum(SubSeq(xs, 1, Len(xs) - 1)), xs[Len(xs)])

\* Series.mean() of a non-empty column of doubles.
Mean(xs) == FloatDivByNat(FloatSum(xs), Len(xs))

SelectUser(engagement_data, user_id) ==
    SelectSeq(engagement_data, LAMBDA row : row.user_id = user_id)

\* The profile dict built from a user's engagement rows.
Profile(rows, tie) ==
    [preferred_content_types |-> ValueCounts(Column(rows, "content_type"), tie),
     preferred_categories    |-> ValueCounts(Column(rows, "content_category"), tie),
     avg_engagement_rate     |-> Mean(Column(rows, "engagement_rate")),
     preferred_posting_times |-> ValueCounts(Column(rows, "posting_hour"), tie),
     hashtag_preferences     |-> ValueCounts(Column(rows, "hashtags"), tie)]

\* The loop keeping a profile built by an earlier call.
RECURSIVE BuildFromKeepingEarlier(_, _, _, _, _)
BuildFromKeepingEarlier(profiles, user_data, engagement_data, tie, i) ==
    IF i > Len(user_data) THEN profiles
    ELSE LET user_id          == user_data[i]
             user_engagements == SelectUser(engagement_data, user_id)
             next == IF user_engagements # <<>>
                     THEN profiles @@ (user_id :> Profile(user_engagements, tie))
                     ELSE profiles
         IN  BuildFromKeepingEarlier(next, user_data, engagement_data, tie, i + 1)

\* build_user_profiles: the loop over user_data, from row i on.
RECURSIVE BuildFrom(_, _, _, _, _)
BuildFrom(profiles, user_data, engagement_data, tie, i) ==
    IF i > Len(user_data) THEN profiles
    ELSE LET user_id          == user_data[i]
             user_engagements == SelectUser(engagement_data, user_id)
             next == IF user_engagements # <<>>
                     THEN (user_id :> Profile(user_engagements, tie)) @@ profiles
                     ELSE profiles
         IN  BuildFrom(next, user_data, engagement_data, tie, i + 1)

BuildUserProfiles(profiles, user_data, engagement_data, tie) ==
    BuildFrom(profiles, user_data, engagement_data, tie, 1)

\* sorted(mapping.items(), key=lambda x: x[1], reverse=True): a stable sort,
\* equal counts keep the order of the dict.
SortedByCountDesc(items) ==
    LET n == Len(items)
        before(a, b) == items[a][2] > items[b][2] \/ (items[a][2] = items[b][2] /\ a < b)
        rank(j) == Cardinality({a \in 1..n : before(a, j)}) + 1
    IN  AsSeq([r \in 1..n |-> items[CHOOSE a \in 1..n : rank(a) = r]])

\* The slice [:3].
TopK == 3

FirstK(xs) == SubSeq(xs, 1, IF Len(xs) < TopK THEN Len(xs) ELSE TopK)

NotFound == [error |-> "User profile not found"]

\* The recommendations dict built from a profile.
Recommendations(profile) ==
    [optimal_posting_times     |->
         FirstK(SortedByCountDesc(profile.preferred_posting_times)),
     recommended_content_types |->
         FirstK(SortedByCountDesc(profile.preferred_content_types)),
     recommended_categories    |->
         FirstK(SortedByCountDesc(profile.preferred_categories)),
     engagement_insights       |->
         [avg_engagement_rate |-> profile.avg_engagement_rate,
          performance_level   |->
              ClassifyPerformance(profile.avg_engagement_rate)]]

\* recommend_content_strategy without the membership test: the lookup
\* raises KeyError, which the except branch turns into {"error": str(e)}.
RecommendWithoutMembershipTest(profiles, user_id) ==
    IF user_id \notin DOMAIN profiles
    THEN [error |-> "KeyError"]
    ELSE Recommendations(profiles[user_id])

\* recommend_content_strategy
RecommendContentStrategy(profiles, user_id) ==
    IF user_id \notin DOMAIN profiles
    THEN NotFound
    ELSE Recommendations(profiles[user_id])

\* The engine after construction: no profiles.
NoProfiles == <<>>

NoBuild == [user_data |-> <<>>, engagement_data |-> <<>>]

NoResult == [op |-> "none"]

InitEngine ==
    /\ user_profiles = NoProfiles
    /\ last_build = NoBuild
    /\ builds = 0
    /\ result = NoResult

\* The number of build_user_profiles calls a behaviour makes.
MaxBuilds == 2

BuildUserProfilesCall(user_frames, engagement_frames, maxKeys) ==
    /\ builds < MaxBuilds
    /\ \E user_data \in user_frames, engagement_data \in engagement_frames,
          tie \in Orders(maxKeys) :
           /\ user_profiles' =
                  BuildUserProfiles(user_profiles, user_data, engagement_data, tie)
           /\ last_build' =
                  [user_data |-> user_data, engagement_data |-> engagement_data]
    /\ builds' = builds + 1
    /\ result' = [op |-> "build_user_profiles"]
    /\ UNCHANGED <<procVars, predictorVars>>

RecommendContentStrategyCall(ids) ==
    \E user_id \in ids :
        /\ result' = [op      |-> "recommend_content_strategy",
                      user_id |-> user_id,
                      value   |-> RecommendContentStrategy(user_profiles, user_id)]
        /\ UNCHANGED <<user_profiles, last_build, builds>>
        /\ UNCHANGED <<procVars, predictorVars>>

ClassifyPerformanceCall(rates) ==
    \E m \in rates :
        /\ result' = [op     |-> "_classify_performance",
                      milli  |-> m,
                      value  |-> ClassifyPerformance(DecimalThousandths(m))]
        /\ UNCHANGED <<user_profiles, last_build, builds>>
        /\ UNCHANGED <<procVars, predictorVars>>

(***************************************************************************)
(* Engagement data of the engine                                           *)
(***************************************************************************)
PostingHours == <<9, 14, 20, 7>>
ContentTypes == <<"photo", "video", "carousel", "story">>
ContentCategories == <<"lifestyle", "food", "travel", "fashion">>
RatesInThousandths == <<2500, 8000, 4999, 6000>>

Wrap(t) == ((t - 1) % 4) + 1

\* The t-th kind of engagement row of a user.
EngagementRow(u, t) ==
    [user_id          |-> u,
     content_type     |-> ContentTypes[Wrap(t)],
     content_category |-> ContentCategories[Wrap(t + 1)],
     engagement_rate  |-> DecimalThousandths(RatesInThousandths[Wrap(t)]),
     posting_hour     |-> PostingHours[Wrap(t)],
     hashtags         |-> "#sample #test"]

Users == {1, 2}
UnknownUser == CHOOSE u \in 1..(Cardinality(Users) + 1) : u \notin Users
MaxRows == 2
EngineKinds == {1, 2}

\* The elements of a set of numbers in ascending order.
RECURSIVE Ascending(_)
Ascending(S) ==
    IF S = {} THEN <<>>
    ELSE LET m == CHOOSE x \in S : \A y \in S : x <= y
         IN  <<m>> \o Ascending(S \ {m})

\* user_data: the user ids of the frame, each at most once.
UserFrames == {Ascending(S) : S \in SUBSET Users}

EngineFrames ==
    SeqsUpTo({EngagementRow(u, t) : u \in Users, t \in EngineKinds}, MaxRows)

\* The database before any data is loaded.
InitDatabase ==
    /\ content_posts = <<>>
    /\ content_performance_metrics = Absent
    /\ user_engagement_metrics = Absent
    /\ hashtags = <<>>
    /\ content_hashtags = <<>>
    /\ current_date = 0
    /\ calls = 0
    /\ returned = NoCall

NextEngine ==
    \/ BuildUserProfilesCall(UserFrames, EngineFrames, Cardinality(EngineKinds))
    \/ RecommendContentStrategyCall(Users \cup {UnknownUser})

InitAll ==
    /\ InitDatabase
    /\ InitEngine
    /\ InitPredictor

SpecEngine == InitAll /\ [][NextEngine]_vars

SpecPredictor == InitAll /\ [][NextPredictor]_vars

\* One user's history, long enough for more than TopK distinct keys.
MaxHistory == 4
RankKinds == {1, 2, 3, 4}

RankFrames == SeqsUpTo({EngagementRow(1, t) : t \in RankKinds}, MaxHistory)

NextRank ==
    \/ /\ user_profiles = NoProfiles
       /\ BuildUserProfilesCall({<<1>>}, RankFrames, Cardinality(RankKinds))
    \/ RecommendContentStrategyCall({1})

SpecRank == InitAll /\ [][NextRank]_vars

\* _classify_performance on the rates 0.000 .. MaxRateInThousandths/1000.
MaxRateInThousandths == 9000

NextClassify ==
    /\ result = NoResult
    /\ ClassifyPerformanceCall(0..MaxRateInThousandths)

SpecClassify == InitAll /\ [][NextClassify]_vars

(***************************************************************************)
(* SocialMediaDataProcessor: the update pipeline                           *)
(***************************************************************************)

\* The tables and the clock the processor works on.
Database ==
    [content_posts               |-> content_posts,
     content_performance_metrics |-> content_performance_metrics,
     user_engagement_metrics     |-> user_engagement_metrics,
     hashtags                    |-> hashtags,
     content_hashtags            |-> content_hashtags,
     current_date                |-> current_date]

Store(db) ==
    /\ content_posts' = db.content_posts
    /\ content_performance_metrics' = db.content_performance_metrics
    /\ user_engagement_metrics' = db.user_engagement_metrics
    /\ hashtags' = db.hashtags
    /\ content_hashtags' = db.content_hashtags
    /\ current_date' = db.current_date

\* What a call leaves behind: the database and the value it returns.
Outcome(db, value) == [db |-> db, value |-> value]

\* The one statement of a call that raises, if any: a query ("..._read"),
\* a to_sql ("..._write"), or the UPDATE of the row-th hashtag.
NoFault == [at |-> "none", row |-> 0]

Fails(fault, at) == fault.at = at

\* The common body of the two metrics updates: False for an empty frame,
\* else to_sql(table, if_exists='replace'), False if that raises.
ReplaceTable(db, table, metrics_df, raises) ==
    IF Len(metrics_df) = 0 THEN Outcome(db, FALSE)
    ELSE IF raises THEN Outcome(db, FALSE)
    ELSE Outcome([db EXCEPT ![table] = Table(metrics_df)], TRUE)

\* update_content_performance_metrics
UpdateContentPerformanceMetrics(db, fault) ==
    ReplaceTable(db, "content_performance_metrics",
                 CalculateEngagementMetrics(db.content_posts,
                                            ~Fails(fault, "content_read")),
                 Fails(fault, "content_write"))

\* SQL NULL, and pandas' reading of a NULL in a float column.
Null == [cls |-> "null", mag |-> <<>>]

NullToNaN(x) == IF x = Null THEN NaN ELSE x

\* SUM and AVG over the non-NULL values of a group.
RECURSIVE NatSum(_)
NatSum(xs) == IF Len(xs) = 0 THEN 0 ELSE NatSum(SubSeq(xs, 1, Len(xs) - 1)) + xs[Len(xs)]

SqlSum(xs) == IF Len(xs) = 0 THEN Null ELSE NatSum(xs)

SqlAvg(xs) == IF Len(xs) = 0 THEN Null ELSE Mean(xs)

\* Pairs in lexicographic order.
RECURSIVE InOrder(_)
InOrder(S) ==
    IF S = {} THEN <<>>
    ELSE LET m == CHOOSE x \in S : \A y \in S :
                      x[1] < y[1] \/ (x[1] = y[1] /\ x[2] <= y[2])
         IN  <<m>> \o InOrder(S \ {m})

\* The rows of content_performance_metrics joined to a content id.
MetricsOf(db, content_id) ==
    SelectSeq(db.content_performance_metrics.rows,
              LAMBDA r : r.content_id = content_id)

RECURSIVE MetricsOfAll(_, _)
MetricsOfAll(db, ids) ==
    IF Len(ids) = 0 THEN <<>>
    ELSE MetricsOf(db, ids[1]) \o MetricsOfAll(db, Tail(ids))

\* INTERVAL '30 days' and INTERVAL '7 days'
UserWindowDays == 30
TrendWindowDays == 7

\* calculate_user_engagement_metrics: one row per user and day with posts
\* created in the last 30 days (every post belongs to a row of users).  The
\* query raises when content_performance_metrics does not exist.  (The
\* columns drawn from np.random and the sums of reach_count and
\* impressions_count are left out.)
CalculateUserEngagementMetrics(db, readOk) ==
    IF ~readOk \/ ~db.content_performance_metrics.exists THEN <<>>
    ELSE LET posts  == db.content_posts
             recent == {i \in 1..Len(posts) :
                          posts[i].created_day >= db.current_date - UserWindowDays}
             groups == InOrder({<<posts[i].user_id, posts[i].created_day>> :
                                   i \in recent})
             row(g) ==
                 LET ids == Ascending({i \in recent :
                               <<posts[i].user_id, posts[i].created_day>> = g})
                     cpm == MetricsOfAll(db, ids)
                 IN  [user_id             |-> g[1],
                      date                |-> g[2],
                      posts_created       |->
                          NatSum([j \in 1..Len(ids) |->
                                     Max(Len(MetricsOf(db, ids[j])), 1)]),
                      likes_received      |-> SqlSum(Column(cpm, "likes_count")),
                      comments_received   |-> SqlSum(Column(cpm, "comments_count")),
                      shares_received     |-> SqlSum(Column(cpm, "shares_count")),
                      avg_engagement_rate |->
                          NullToNaN(SqlAvg(Column(cpm, "engagement_rate")))]
         IN  AsSeq([n \in 1..Len(groups) |-> row(groups[n])])

\* update_user_engagement_metrics
UpdateUserEngagementMetrics(db, fault) ==
    ReplaceTable(db, "user_engagement_metrics",
                 CalculateUserEngagementMetrics(db, ~Fails(fault, "user_read")),
                 Fails(fault, "user_write"))

\* The join of calculate_hashtag_trends for one row of content_hashtags:
\* the post it names if that post was created within the last 7 days, and
\* that post's metrics rows; one all-NULL row when there is none.
TrendJoin(db, usage) ==
    LET posts   == db.content_posts
        matched == /\ usage.content_id \in 1..Len(posts)
                   /\ posts[usage.content_id].created_day >=
                          db.current_date - TrendWindowDays
        cpm     == IF matched THEN MetricsOf(db, usage.content_id) ELSE <<>>
    IN  IF Len(cpm) = 0
        THEN <<[content_id |-> usage.content_id, engagement_rate |-> Null,
                virality_score |-> Null]>>
        ELSE AsSeq([j \in 1..Len(cpm) |->
                       [content_id      |-> usage.content_id,
                        engagement_rate |-> cpm[j].engagement_rate,
                        virality_score  |-> cpm[j].virality_score]])

RECURSIVE TrendJoinAll(_, _)
TrendJoinAll(db, usages) ==
    IF Len(usages) = 0 THEN <<>>
    ELSE TrendJoin(db, usages[1]) \o TrendJoinAll(db, Tail(usages))

NonNull(xs) == SelectSeq(xs, LAMBDA x : x # Null)

\* The row the query returns for one hashtag.
TrendQueryRow(db, h) ==
    LET usages == SelectSeq(db.content_hashtags, LAMBDA ch : ch.hashtag_id = h.id)
        joined == TrendJoinAll(db, usages)
    IN  [hashtag_id          |-> h.id,
         usage_count_7d      |-> Len(joined),
         unique_posts_7d     |->
             Cardinality({joined[j].content_id : j \in 1..Len(joined)}),
         avg_engagement_rate |-> SqlAvg(NonNull(Column(joined, "engagement_rate"))),
         avg_virality_score  |-> SqlAvg(NonNull(Column(joined, "virality_score")))]

\* x * 0.5
FloatHalf(x) == FloatDivByNat(x, 2)

\* usage_count_7d * 0.6 + unique_posts_7d * 0.4
PopularityScoreOverweighted(row) ==
    FloatAdd(FloatMulNat(DecimalTenths(6), row.usage_count_7d),
             FloatMulNat(DecimalTenths(6), row.unique_posts_7d))

PopularityScore(row) ==
    FloatAdd(FloatMulNat(DecimalTenths(6), row.usage_count_7d),
             FloatMulNat(DecimalTenths(4), row.unique_posts_7d))

\* avg_engagement_rate * 0.5 + avg_virality_score * 0.5
TrendScore(row) ==
    FloatAdd(FloatHalf(row.avg_engagement_rate), FloatHalf(row.avg_virality_score))

\* A row of the frame with its two scores.
TrendRow(row) ==
    [hashtag_id          |-> row.hashtag_id,
     usage_count_7d      |-> row.usage_count_7d,
     unique_posts_7d     |-> row.unique_posts_7d,
     avg_engagement_rate |-> row.avg_engagement_rate,
     avg_virality_score  |-> row.avg_virality_score,
     popularity_score    |-> PopularityScore(row),
     trend_score         |-> TrendScore(row)]

AllNull(rows, name) == \A n \in 1..Len(rows) : rows[n][name] = Null

\* The frame read_sql makes of the query's rows, with the score columns.
\* read_sql turns a NULL average into nan, unless the whole column is
\* NULL: it then holds None objects, None * 0.5 raises TypeError and the
\* except branch returns the empty frame.
TrendsFrame(rows) ==
    IF AllNull(rows, "avg_engagement_rate") \/ AllNull(rows, "avg_virality_score")
    THEN <<>>
    ELSE AsSeq([n \in 1..Len(rows) |->
                   TrendRow([rows[n] EXCEPT
                                !.avg_engagement_rate = NullToNaN(@),
                                !.avg_virality_score = NullToNaN(@)])])

\* calculate_hashtag_trends.  The query raises when the metrics table does
\* not exist.
CalculateHashtagTrends(db, readOk) ==
    IF ~readOk \/ ~db.content_performance_metrics.exists THEN <<>>
    ELSE TrendsFrame(AsSeq([n \in 1..Len(db.hashtags) |->
                               TrendQueryRow(db, db.hashtags[n])]))

\* UPDATE hashtags SET popularity_score, trend_score, last_used_at WHERE id
UpdateHashtag(table, row, now) ==
    AsSeq([n \in 1..Len(table) |->
              IF table[n].id = row.hashtag_id
              THEN [table[n] EXCEPT !.popularity_score = row.popularity_score,
                                    !.trend_score = row.trend_score,
                                    !.last_used_at = now]
              ELSE table[n]])

\* The loop of update_hashtag_trends from row i on; each UPDATE commits.
RECURSIVE UpdateHashtagsFrom(_, _, _, _)
UpdateHashtagsFrom(db, trends_df, fault, i) ==
    IF i > Len(trends_df) THEN Outcome(db, TRUE)
    ELSE IF Fails(fault, "hashtag_update") /\ fault.row = i THEN Outcome(db, FALSE)
    ELSE UpdateHashtagsFrom(
             [db EXCEPT !.hashtags = UpdateHashtag(@, trends_df[i], db.current_date)],
             trends_df, fault, i + 1)

\* The body of update_hashtag_trends once the frame is computed.
UpdateHashtags(db, trends_df, fault) ==
    IF Len(trends_df) = 0 THEN Outcome(db, FALSE)
    ELSE UpdateHashtagsFrom(db, trends_df, fault, 1)

\* update_hashtag_trends
UpdateHashtagTrends(db, fault) ==
    UpdateHashtags(db, CalculateHashtagTrends(db, ~Fails(fault, "hashtag_read")), fault)

\* process_all_metrics after update_content_performance_metrics returned:
\* False if it returned False, else update_user_engagement_metrics.
AfterContentUpdateIgnoringFailure(outcome, fault) ==
    UpdateUserEngagementMetrics(outcome.db, fault)

AfterContentUpdate(outcome, fault) ==
    IF ~outcome.value THEN Outcome(outcome.db, FALSE)
    ELSE UpdateUserEngagementMetrics(outcome.db, fault)

\* process_all_metrics after update_user_engagement_metrics returned (or
\* was skipped): False if the step before returned False, else
\* update_hashtag_trends, and True only if that returns True.
AfterUserUpdate(outcome, fault) ==
    IF ~outcome.value THEN Outcome(outcome.db, FALSE)
    ELSE UpdateHashtagTrends(outcome.db, fault)

\* process_all_metrics
ProcessAllMetrics(db, fault) ==
    AfterUserUpdate(
        AfterContentUpdate(UpdateContentPerformanceMetrics(db, fault), fault),
        fault)

\* The number of update calls a behaviour makes.
MaxCalls == 2

\* A call of the processor: the database it leaves, what it returned, and
\* the statement that raised during it.
Returns(op, outcome, fault) ==
    /\ calls < MaxCalls
    /\ calls' = calls + 1
    /\ Store(outcome.db)
    /\ returned' = [op |-> op, value |-> outcome.value, fault |-> fault]
    /\ UNCHANGED <<engineVars, predictorVars>>

FaultsAt(places) == {[at |-> a, row |-> 0] : a \in places}

HashtagUpdateFaults == {[at |-> "hashtag_update", row |-> i] : i \in 1..Len(hashtags)}

UpdateContentPerformanceMetricsCall ==
    \E fault \in FaultsAt({"none", "content_read", "content_write"}) :
        Returns("update_content_performance_metrics",
                UpdateContentPerformanceMetrics(Database, fault), fault)

UpdateUserEngagementMetricsCall ==
    \E fault \in FaultsAt({"none", "user_read", "user_write"}) :
        Returns("update_user_engagement_metrics",
                UpdateUserEngagementMetrics(Database, fault), fault)

UpdateHashtagTrendsCall ==
    \E fault \in FaultsAt({"none", "hashtag_read"}) \cup HashtagUpdateFaults :
        Returns("update_hashtag_trends", UpdateHashtagTrends(Database, fault), fault)

ProcessAllMetricsCall ==
    \E fault \in FaultsAt({"none", "content_read", "content_write", "user_read",
                           "user_write", "hashtag_read"}) \cup HashtagUpdateFaults :
        Returns("process_all_metrics", ProcessAllMetrics(Database, fault), fault)

\* calculate_hashtag_trends called on its own: the frame it returns.
CalculateHashtagTrendsCall ==
    \E fault \in FaultsAt({"none", "hashtag_read"}) :
        /\ returned' = [op    |-> "calculate_hashtag_trends",
                        value |-> CalculateHashtagTrends(
                                      Database, ~Fails(fault, "hashtag_read")),
                        fault |-> fault]
        /\ UNCHANGED <<dbVars, calls>>
        /\ UNCHANGED <<engineVars, predictorVars>>

(***************************************************************************)
(* The data of the pipeline                                                *)
(***************************************************************************)
Today == UserWindowDays + TrendWindowDays

\* Creation days: the day before the 7-day window, its first day, and
\* tomorrow.
CreatedDays ==
    <<Today - TrendWindowDays - 1, Today - TrendWindowDays, Today + 1>>

LikesCounts == <<10, 0, 4>>
CommentsCounts == <<2, 1, 0>>
SharesCounts == <<1, 1, 2>>
SavesCounts == <<3, 0, 1>>

\* The k-th kind of content post with its interaction counts.
PostRow(k) ==
    [user_id        |-> 1,
     created_day    |-> CreatedDays[k],
     likes_count    |-> LikesCounts[k],
     comments_count |-> CommentsCounts[k],
     shares_count   |-> SharesCounts[k],
     saves_count    |-> SavesCounts[k]]

PostKinds == {1, 2, 3}
HashtagIds == <<1, 2>>
MaxPosts == 2
MaxUsages == 2

\* A hashtag that update_hashtag_trends has not written yet.
HashtagRow(id) ==
    [id |-> id, popularity_score |-> FloatOfNat(0), trend_score |-> FloatOfNat(0),
     last_used_at |-> 0]

Usages ==
    [content_id : 1..MaxPosts, hashtag_id : {HashtagIds[i] : i \in 1..Len(HashtagIds)}]

InitProcessor ==
    /\ content_posts \in SeqsUpTo({PostRow(k) : k \in PostKinds}, MaxPosts)
    /\ content_performance_metrics = Absent
    /\ user_engagement_metrics = Absent
    /\ hashtags = [i \in 1..Len(HashtagIds) |-> HashtagRow(HashtagIds[i])]
    /\ content_hashtags \in SeqsUpTo(Usages, MaxUsages)
    /\ current_date = Today
    /\ calls = 0
    /\ returned = NoCall
    /\ InitEngine
    /\ InitPredictor

NextProcessor ==
    \/ UpdateContentPerformanceMetricsCall
    \/ UpdateUserEngagementMetricsCall
    \/ UpdateHashtagTrendsCall
    \/ ProcessAllMetricsCall

SpecProcessor == InitProcessor /\ [][NextProcessor]_vars

(***************************************************************************)
(* Hashtag trends on a database whose metrics table is up to date          *)
(***************************************************************************)

\* The usages that name a post of the table (the foreign key of
\* content_hashtags).
UsagesOf(posts) == {u \in Usages : u.content_id <= Len(posts)}

\* content_performance_metrics as update_content_performance_metrics leaves
\* it for the posts of the table, or not created yet.
InitTrends ==
    /\ content_posts \in SeqsUpTo({PostRow(k) : k \in PostKinds}, MaxPosts)
    /\ content_performance_metrics \in
           {Absent, Table(CalculateEngagementMetrics(content_posts, TRUE))}
    /\ user_engagement_metrics = Absent
    /\ hashtags = [i \in 1..Len(HashtagIds) |-> HashtagRow(HashtagIds[i])]
    /\ content_hashtags \in SeqsUpTo(UsagesOf(content_posts), MaxUsages)
    /\ current_date = Today
    /\ calls = 0
    /\ returned = NoCall
    /\ InitEngine
    /\ InitPredictor

NextTrends ==
    \/ CalculateHashtagTrendsCall
    \/ UpdateHashtagTrendsCall

SpecTrends == InitTrends /\ [][NextTrends]_vars

\* calculate_hashtag_trends alone, which writes nothing.
NextTrendScores == CalculateHashtagTrendsCall

SpecTrendScores == InitTrends /\ [][NextTrendScores]_vars

(***************************************************************************)
(* The metric formulas on single rows                                      *)
(***************************************************************************)
MaxLikes == 10
MaxComments == 2
MaxShares == 2
MaxSaves == 3
MaxScale == 4

CountRows ==
    [user_id : {1}, created_day : {0},
     likes_count : 0..MaxLikes, comments_count : 0..MaxComments,
     shares_count : 0..MaxShares, saves_count : 0..MaxSaves]

InitMetrics ==
    /\ content_posts \in {<<r>> : r \in CountRows}
    /\ content_performance_metrics = Absent
    /\ user_engagement_metrics = Absent
    /\ hashtags = <<>>
    /\ content_hashtags = <<>>
    /\ current_date = 0
    /\ calls = 0
    /\ returned = NoCall
    /\ InitEngine
    /\ InitPredictor

NextMetrics == CalculateEngagementMetricsCall

SpecMetrics == InitMetrics /\ [][NextMetrics]_vars


\* The frame the last call of calculate_engagement_metrics returned.
Calculated == returned.op = "calculate_engagement_metrics"

MetricsFrame == IF Calculated THEN returned.value ELSE <<>>

\* The double x is the real number num/den up to a relative error of 2^-bits.
CloseToRatio(x, num, den, bits) ==
    /\ IsFinite(x)
    /\ BigLeq(BigShiftLeft(BigAbsDiff(BigMulNat(x.mag, den), FloatOfNat(num).mag), bits),
              FloatOfNat(num).mag)

\* The doubles x and y differ by at most 2^-bits of y.
CloseTo(x, y, bits) ==
    /\ IsFinite(x) /\ IsFinite(y)
    /\ BigLeq(BigShiftLeft(BigAbsDiff(x.mag, y.mag), bits), y.mag)

\* C1: every row of the frame has engagement_rate =
\* (likes + comments + shares) / max(likes, 1) * 100, as a double and, up to
\* rounding, as a real number; the value is finite (no division by zero), it is
\* (comments + shares) * 100 when likes = 0, and 130 for likes = 10,
\* comments = 2, shares = 1.
C1_EngagementRateFormula ==
    \A i \in 1..Len(MetricsFrame) :
        LET r == MetricsFrame[i]
            n == r.likes_count + r.comments_count + r.shares_count
            d == Max(r.likes_count, 1)
        IN  /\ IsFinite(r.engagement_rate)
            /\ r.engagement_rate = FloatMulNat(FloatDivNat(n, d), 100)
            /\ CloseToRatio(r.engagement_rate, 100 * n, d, 50)
            /\ (r.likes_count = 0 =>
                  r.engagement_rate =
                      FloatOfNat((r.comments_count + r.shares_count) * 100))
            /\ (r.likes_count = 10 /\ r.comments_count = 2 /\ r.shares_count = 1 =>
                  r.engagement_rate = FloatOfNat(130))

C1_Witness ==
    \E i \in 1..Len(MetricsFrame) :
        /\ MetricsFrame[i].likes_count = 10
        /\ MetricsFrame[i].comments_count = 2
        /\ MetricsFrame[i].shares_count = 1
        /\ MetricsFrame[i].engagement_rate = FloatOfNat(130)

\* C2 as stated: a row whose likes_count is 0 has engagement_rate 0.
C2_ZeroRateWithoutLikes ==
    \A i \in 1..Len(MetricsFrame) :
        MetricsFrame[i].likes_count = 0 =>
            MetricsFrame[i].engagement_rate = FloatOfNat(0)

\* C2 as amended: a row whose likes_count is 0 has engagement_rate
\* (comments + shares) * 100, which is 0 only when comments and shares are
\* both 0.
C2_RateWithoutLikes ==
    \A i \in 1..Len(MetricsFrame) :
        LET r == MetricsFrame[i]
            others == r.comments_count + r.shares_count
        IN  r.likes_count = 0 =>
                /\ r.engagement_rate = FloatOfNat(others * 100)
                /\ (r.engagement_rate = FloatOfNat(0) <=> others = 0)

C2_Witness ==
    \E i \in 1..Len(MetricsFrame) :
        /\ MetricsFrame[i].likes_count = 0
        /\ MetricsFrame[i].comments_count + MetricsFrame[i].shares_count > 0
        /\ MetricsFrame[i].engagement_rate # FloatOfNat(0)

\* The counts of a row multiplied by a common factor k.
Scaled(r, k) ==
    [r EXCEPT !.shares_count = k * r.shares_count,
              !.comments_count = k * r.comments_count,
              !.saves_count = k * r.saves_count]

\* C3 as stated: multiplying shares, comments and saves by k multiplies
\* virality_score by exactly k.
C3_ExactlyLinear ==
    \A i \in 1..Len(MetricsFrame) : \A k \in 0..MaxScale :
        ViralityScore(Scaled(MetricsFrame[i], k)) =
            FloatMulNat(MetricsFrame[i].virality_score, k)

\* C3 as amended: virality_score is the double shares*0.4 + comments*0.3 +
\* saves*0.3, equal to the real 0.4*shares + 0.3*comments + 0.3*saves up to
\* rounding; scaling the counts by k scales it by k up to rounding, exactly
\* when k is 0, 1, 2 or 4; all-zero counts give 0.
C3_LinearUpToRounding ==
    \A i \in 1..Len(MetricsFrame) :
        LET r == MetricsFrame[i]
            tenths == 4 * r.shares_count + 3 * r.comments_count + 3 * r.saves_count
        IN  /\ CloseToRatio(r.virality_score, tenths, 10, 50)
            /\ (tenths = 0 => r.virality_score = FloatOfNat(0))
            /\ \A k \in 0..MaxScale :
                 LET scaled == ViralityScore(Scaled(r, k))
                     times  == FloatMulNat(r.virality_score, k)
                 IN  /\ CloseTo(scaled, times, 49)
                     /\ (k \in {0, 1, 2, 4} => scaled = times)

C3_Witness ==
    \E i \in 1..Len(MetricsFrame) :
        /\ MetricsFrame[i].shares_count = 1
        /\ MetricsFrame[i].comments_count = 1
        /\ MetricsFrame[i].saves_count = 0
        /\ ViralityScore(Scaled(MetricsFrame[i], 3)) #
               FloatMulNat(MetricsFrame[i].virality_score, 3)
        /\ CloseTo(ViralityScore(Scaled(MetricsFrame[i], 3)),
                   FloatMulNat(MetricsFrame[i].virality_score, 3), 49)

(***************************************************************************)
(* ContentRecommendationEngine: properties                                 *)
(***************************************************************************)
Labels == {"Excellent", "Good", "Average", "Needs Improvement"}

\* C4: _classify_performance returns exactly one of the four labels for
\* every rate: Excellent iff rate >= 8.0, Good iff 5.0 <= rate < 8.0, Average
\* iff 3.0 <= rate < 5.0, Needs Improvement iff rate < 3.0; the boundaries
\* 8.0, 5.0 and 3.0 fall in the higher band (rates in thousandths).
C4_ClassifyPerformanceBands ==
    result.op = "_classify_performance" =>
        LET m == result.milli
            v == result.value
        IN  /\ v \in Labels
            /\ (v = "Excellent" <=> m >= 8000)
            /\ (v = "Good" <=> (5000 <= m /\ m < 8000))
            /\ (v = "Average" <=> (3000 <= m /\ m < 5000))
            /\ (v = "Needs Improvement" <=> m < 3000)

C4_Witness ==
    /\ result.op = "_classify_performance"
    /\ result.milli = 8000
    /\ result.value = "Excellent"

Recommended == result.op = "recommend_content_strategy"

\* The rows the most recent build_user_profiles call had for a user.
LastRows(u) == SelectUser(last_build.engagement_data, u)

Listed(u) == \E i \in 1..Len(last_build.user_data) : last_build.user_data[i] = u

\* The distinct values of a column with their counts, most frequent first,
\* equal counts in order of first occurrence, at most TopK of them.
TopByFirstOccurrence(col) ==
    LET keys == FirstSeen(col)
    IN  FirstK(SortedByCountDesc(
            [j \in 1..Len(keys) |-> <<keys[j], Occurrences(col, keys[j])>>]))

\* C5 as stated: each recommended list has at most 3 entries, the most
\* frequent keys of the user's history in descending order of count, equal
\* counts in the order in which the keys first occurred in the history.
C5_TiesInFirstOccurrenceOrder ==
    (Recommended /\ result.value # NotFound) =>
        LET rows == LastRows(result.user_id)
        IN  /\ result.value.optimal_posting_times =
                   TopByFirstOccurrence(Column(rows, "posting_hour"))
            /\ result.value.recommended_content_types =
                   TopByFirstOccurrence(Column(rows, "content_type"))
            /\ result.value.recommended_categories =
                   TopByFirstOccurrence(Column(rows, "content_category"))

\* C6: recommend_content_strategy(u) for a user without an entry in
\* user_profiles returns {"error": "User profile not found"} (a value, not
\* an exception) and leaves user_profiles unchanged.
C6_UnknownUserNotFound ==
    [][(result'.op = "recommend_content_strategy"
          /\ result'.user_id \notin DOMAIN user_profiles)
         => (result'.value = NotFound /\ user_profiles' = user_profiles)]_vars

C6_Witness ==
    /\ Recommended
    /\ user_profiles # NoProfiles
    /\ result.user_id \notin DOMAIN user_profiles
    /\ result.value = NotFound

\* C7 as stated: when the most recent build_user_profiles call listed the
\* user and had no engagement rows for them, recommend_content_strategy
\* returns the not-found result.
C7_EmptyHistoryNotFound ==
    (Recommended /\ builds > 0 /\ Listed(result.user_id)
       /\ LastRows(result.user_id) = <<>>)
        => result.value = NotFound

\* A frequency mapping holds exactly the distinct values of the column,
\* each once with its number of occurrences, counts in descending order.
CountsMatch(mapping, col) ==
    /\ {mapping[i][1] : i \in 1..Len(mapping)} = {col[i] : i \in 1..Len(col)}
    /\ Len(mapping) = Cardinality({col[i] : i \in 1..Len(col)})
    /\ \A i \in 1..Len(mapping) : mapping[i][2] = Occurrences(col, mapping[i][1])
    /\ \A i \in 1..(Len(mapping) - 1) : mapping[i][2] >= mapping[i + 1][2]

\* A profile is the one of these engagement rows and of nothing else.
ProfileMatches(profile, rows) ==
    /\ CountsMatch(profile.preferred_content_types, Column(rows, "content_type"))
    /\ CountsMatch(profile.preferred_categories, Column(rows, "content_category"))
    /\ CountsMatch(profile.preferred_posting_times, Column(rows, "posting_hour"))
    /\ CountsMatch(profile.hashtag_preferences, Column(rows, "hashtags"))
    /\ profile.avg_engagement_rate = Mean(Column(rows, "engagement_rate"))

\* C8 as stated: after a call in which a user has at least one engagement
\* row, user_profiles holds for that user the profile of those rows alone.
C8_ProfileOfLastRows ==
    \A u \in Users :
        (builds > 0 /\ LastRows(u) # <<>>) =>
            /\ u \in DOMAIN user_profiles
            /\ ProfileMatches(user_profiles[u], LastRows(u))

\* C8 as amended: the same for a user the call lists in user_data.
C8_ListedProfileOfLastRows ==
    \A u \in Users :
        (builds > 0 /\ Listed(u) /\ LastRows(u) # <<>>) =>
            /\ u \in DOMAIN user_profiles
            /\ ProfileMatches(user_profiles[u], LastRows(u))

C8_Witness ==
    \E u \in Users :
        /\ builds = MaxBuilds
        /\ Listed(u)
        /\ Len(LastRows(u)) = 1
        /\ u \in DOMAIN user_profiles
        /\ ProfileMatches(user_profiles[u], LastRows(u))

(***************************************************************************)
(* SocialMediaDataProcessor: properties of the update pipeline             *)
(***************************************************************************)

\* C9 as stated: with no content rows and no statement raising,
\* update_content_performance_metrics and process_all_metrics do not
\* return the failure status.
C9_EmptyContentNotFailure ==
    (/\ returned.op \in {"update_content_performance_metrics", "process_all_metrics"}
     /\ returned.fault = NoFault
     /\ content_posts = <<>>)
        => returned.value = TRUE

\* The last call reached the UPDATE of a hashtag row and that UPDATE raised.
HashtagUpdateRaised ==
    /\ returned.op \in {"update_hashtag_trends", "process_all_metrics"}
    /\ Fails(returned.fault, "hashtag_update")
    /\ returned.fault.row <= Len(CalculateHashtagTrends(Database, TRUE))
    /\ user_engagement_metrics.exists \/ returned.op = "update_hashtag_trends"

\* C10 as stated: when the UPDATE of one hashtag raises, every other
\* hashtag of the batch is still written, and the call returns more than a
\* single boolean.
C10_FailureDoesNotAbortBatch ==
    HashtagUpdateRaised =>
        /\ \A n \in 1..Len(hashtags) :
               n # returned.fault.row => hashtags[n].last_used_at = current_date
        /\ returned.value \notin BOOLEAN

(***************************************************************************)
(* SocialMediaDataProcessor: properties of the hashtag trends              *)
(***************************************************************************)

\* The frame the last call of calculate_hashtag_trends returned.
TrendsCalculated == returned.op = "calculate_hashtag_trends"

TrendsReturned == IF TrendsCalculated THEN returned.value ELSE <<>>

\* The day lies in the trailing window [now - 7d, now).
InTrendWindow(day) ==
    /\ current_date - TrendWindowDays <= day
    /\ day < current_date

\* The usages of hashtag h whose content was created in the window.
WindowUsages(h) ==
    SelectSeq(content_hashtags,
              LAMBDA ch : /\ ch.hashtag_id = h
                          /\ ch.content_id \in 1..Len(content_posts)
                          /\ InTrendWindow(content_posts[ch.content_id].created_day))

\* The metrics rows of those usages, one per usage and metrics row.
WindowMetrics(h) == MetricsOfAll(Database, Column(WindowUsages(h), "content_id"))

\* C11 as stated: in every row of the frame, the four aggregates are taken
\* over the usages of the hashtag whose content was created at a time t with
\* now - 7d <= t < now, and over no other usage.
C11_OnlyWindowUsagesCounted ==
    \A n \in 1..Len(TrendsReturned) :
        LET row == TrendsReturned[n]
            h   == row.hashtag_id
        IN  /\ row.usage_count_7d = Len(WindowUsages(h))
            /\ row.unique_posts_7d =
                   Cardinality({WindowUsages(h)[j].content_id :
                                   j \in 1..Len(WindowUsages(h))})
            /\ row.avg_engagement_rate =
                   NullToNaN(SqlAvg(Column(WindowMetrics(h), "engagement_rate")))
            /\ row.avg_virality_score =
                   NullToNaN(SqlAvg(Column(WindowMetrics(h), "virality_score")))

\* The double x is half the sum of the doubles a and b, up to a relative
\* error of 2^-bits.
CloseToHalfSum(x, a, b, bits) ==
    /\ IsFinite(x) /\ IsFinite(a) /\ IsFinite(b)
    /\ BigLeq(BigShiftLeft(BigAbsDiff(BigMulNat(x.mag, 2), BigAdd(a.mag, b.mag)), bits),
              BigAdd(a.mag, b.mag))

\* C12: every row of the frame has popularity_score =
\* 0.6 * usage_count_7d + 0.4 * unique_posts_7d and trend_score =
\* 0.5 * avg_engagement_rate + 0.5 * avg_virality_score (nan when an average
\* is nan), as doubles and, up to rounding, as real numbers; the weights of
\* each formula add up to exactly 1.0, so that equal counts x, x give the
\* popularity x and equal finite averages x, x give the trend score x.
C12_ScoreFormulas ==
    /\ FloatAdd(DecimalTenths(6), DecimalTenths(4)) = FloatOfNat(1)
    /\ FloatAdd(FloatHalf(FloatOfNat(1)), FloatHalf(FloatOfNat(1))) = FloatOfNat(1)
    /\ \A n \in 1..Len(TrendsReturned) :
           LET row == TrendsReturned[n]
           IN  /\ row.popularity_score =
                      FloatAdd(FloatMulNat(DecimalTenths(6), row.usage_count_7d),
                               FloatMulNat(DecimalTenths(4), row.unique_posts_7d))
               /\ CloseToRatio(row.popularity_score,
                               6 * row.usage_count_7d + 4 * row.unique_posts_7d, 10, 50)
               /\ row.usage_count_7d = row.unique_posts_7d
                      => row.popularity_score = FloatOfNat(row.usage_count_7d)
               /\ row.trend_score =
                      FloatAdd(FloatHalf(row.avg_engagement_rate),
                               FloatHalf(row.avg_virality_score))
               /\ IF IsFinite(row.avg_engagement_rate) /\ IsFinite(row.avg_virality_score)
                  THEN CloseToHalfSum(row.trend_score, row.avg_engagement_rate,
                                      row.avg_virality_score, 50)
                  ELSE row.trend_score = NaN
               /\ \A x \in {row.avg_engagement_rate, row.avg_virality_score} :
                      IsFinite(x) =>
                          TrendScore([avg_engagement_rate |-> x,
                                      avg_virality_score  |-> x]) = x

\* A frame with a hashtag whose two counts are equal and positive and whose
\* averages are finite and differ.
C12_Witness ==
    \E n \in 1..Len(TrendsReturned) :
        /\ TrendsReturned[n].usage_count_7d = TrendsReturned[n].unique_posts_7d
        /\ TrendsReturned[n].unique_posts_7d > 0
        /\ IsFinite(TrendsReturned[n].trend_score)
        /\ TrendsReturned[n].avg_engagement_rate # TrendsReturned[n].avg_virality_score

\* The hashtags without a usage on content created in the window.
UnusedInWindow == {n \in 1..Len(hashtags) : WindowUsages(hashtags[n].id) = <<>>}

\* C13 as stated: when the query does not raise, calculate_hashtag_trends
\* returns for every hashtag without usage in the window a row with
\* popularity_score = 0 and trend_score = 0, and update_hashtag_trends
\* returns True and writes these two zeros to the hashtag.
C13_NoUsageGivesZero ==
    /\ (/\ TrendsCalculated
        /\ returned.fault = NoFault
        /\ content_performance_metrics.exists)
           => \A n \in UnusedInWindow :
                  \E i \in 1..Len(TrendsReturned) :
                      /\ TrendsReturned[i].hashtag_id = hashtags[n].id
                      /\ TrendsReturned[i].popularity_score = FloatOfNat(0)
                      /\ TrendsReturned[i].trend_score = FloatOfNat(0)
    /\ (/\ returned.op = "update_hashtag_trends"
        /\ returned.fault = NoFault
        /\ content_performance_metrics.exists)
           => /\ returned.value = TRUE
              /\ \A n \in UnusedInWindow :
                     /\ hashtags[n].popularity_score = FloatOfNat(0)
                     /\ hashtags[n].trend_score = FloatOfNat(0)
                     /\ hashtags[n].last_used_at = current_date

(***************************************************************************)
(* SocialMediaDataProcessor: process_all_metrics                           *)
(***************************************************************************)

\* A step that is a call of process_all_metrics.
ProcessAllMetricsStep ==
    /\ calls' = calls + 1
    /\ returned'.op = "process_all_metrics"

\* The tables after the step.
DatabaseAfter ==
    [content_posts               |-> content_posts',
     content_performance_metrics |-> content_performance_metrics',
     user_engagement_metrics     |-> user_engagement_metrics',
     hashtags                    |-> hashtags',
     content_hashtags            |-> content_hashtags',
     current_date                |-> current_date']

\* The call returns False and leaves the tables as the failed update left
\* them: no later update ran, nothing written before is undone.
StopsAfter(outcome) ==
    /\ returned'.value = FALSE
    /\ DatabaseAfter = outcome.db

\* The call returns what its last update returned and leaves its tables.
EndsWith(outcome) ==
    /\ returned'.value = outcome.value
    /\ DatabaseAfter = outcome.db

ThenHashtagTrends(user, fault) ==
    IF ~user.value THEN StopsAfter(user)
    ELSE EndsWith(UpdateHashtagTrends(user.db, fault))

ThenUserEngagement(content, fault) ==
    IF ~content.value THEN StopsAfter(content)
    ELSE /\ content_performance_metrics'.exists
         /\ ThenHashtagTrends(UpdateUserEngagementMetrics(content.db, fault), fault)

\* C14: every call of process_all_metrics runs
\* update_content_performance_metrics on the tables it finds, then
\* update_user_engagement_metrics on the tables that left, then
\* update_hashtag_trends on the tables that left; an update runs only if
\* every update before it returned True; the call returns True exactly if
\* all three did; and when it returns False the tables are those the
\* failed update left, with everything the earlier updates wrote.
C14_UpdatesInOrderWithoutRollback ==
    [][ProcessAllMetricsStep =>
           ThenUserEngagement(
               UpdateContentPerformanceMetrics(Database, returned'.fault),
               returned'.fault)]_vars

\* process_all_metrics returned False after it wrote
\* content_performance_metrics, and the table is still there.
C14_Witness ==
    /\ returned.op = "process_all_metrics"
    /\ returned.value = FALSE
    /\ calls = 1
    /\ content_performance_metrics.exists
    /\ ~user_engagement_metrics.exists

(***************************************************************************)
(* EngagementPredictor: properties                                         *)
(***************************************************************************)

\* self.model is an estimator on which fit has completed, and self.scaler
\* is the scaler fitted in the same train call.
FittedTogether ==
    /\ model.type \in ModelTypes
    /\ model.fitted
    /\ scaler # StandardScaler
    /\ scaler.fitted_on = model.scaled_on

\* C15 as stated: in every state reachable by train, predict, save_model
\* and load_model calls, failing ones included, is_trained = True implies
\* that self.model is a fitted estimator and self.scaler the scaler fitted
\* together with it; and predict and save_model on a predictor whose
\* is_trained is False return the empty array and False.
C15_TrainedMeansFittedTogether ==
    /\ is_trained => FittedTogether
    /\ (result.op = "predict" /\ ~is_trained) => result.value = EmptyArray
    /\ (result.op = "save_model" /\ ~is_trained) => result.value = FALSE

=============================================================================
